---------------------------- MODULE Spec2Model ----------------------------
(***************************************************************************)
(* The labeling session of src/app.py (the live script, lines 763-1196).   *)
(*                                                                         *)
(* The script is a Streamlit page: every operator interaction re-executes  *)
(* the whole script from the top against st.session_state.  One action of  *)
(* this model is therefore one interaction: the script run it triggers,    *)
(* and, when the run ends in st.rerun(), the run that follows it.          *)
(*                                                                         *)
(* Python lists are sequences; st.session_state.index stays 0-based as in  *)
(* the source, so the current item is images[index + 1].  A dict is a      *)
(* function whose DOMAIN is its key set.  Text is a sequence of            *)
(* one-character strings, so that str.strip() is computed, not assumed.    *)
(* The table image_labels is a bag of rows, so that a row written twice    *)
(* would be two rows.                                                      *)
(*                                                                         *)
(* Spec is the session of the live script.  ListSpec runs the listing over *)
(* folders of any content, NavSpec adds the Prev and Next buttons of the   *)
(* earlier variant of the script, JumpSpec applies the jump to the next    *)
(* unlabeled item as the specification describes it, and LiveSpec is the   *)
(* session of an operator who opens the page and then only saves.          *)
(***************************************************************************)
EXTENDS Integers, Sequences, FiniteSets, Bags, TLC

\* ------------------------------------------------------------------ bounds
\* Number of entries of the Drive folder (one of them is not an image).
MaxFiles == 3
\* Number of entries the upstream puts on one page of the listing.
PageSize == 2

\* ------------------------------------------------------------------- text
\* Python None / SQL NULL in a text column: a value no text equals.
Null == <<"<null>">>
Whitespace == {" ", "\n", "\t"}
EmptyStr == << >>
NoneStr == <<"N", "o", "n", "e">>    \* the description "None"
Dent == <<"d">>

RECURSIVE LStrip(_)
LStrip(s) ==
    IF s = << >> THEN << >>
    ELSE IF Head(s) \in Whitespace THEN LStrip(Tail(s)) ELSE s

RECURSIVE RStrip(_)
RStrip(s) ==
    IF s = << >> THEN << >>
    ELSE IF s[Len(s)] \in Whitespace THEN RStrip(SubSeq(s, 1, Len(s) - 1)) ELSE s

\* str.strip(): leading and trailing whitespace removed, the inside kept.
Strip(s) == RStrip(LStrip(s))

\* Python truthiness of a description column: None and "" are falsy.
Truthy(d) == d # Null /\ d # EmptyStr

\* ------------------------------------------------------------ Drive folder
\* Names in ascending order; the rank of a name is its position here.
Alphabet == <<"a", "b", "c", "d", "e", "f">>
NameRank(n) == CHOOSE i \in 1..Len(Alphabet) : Alphabet[i] = n
\* The order in which the upstream lists the folder (not sorted by name).
UpstreamNames == <<"b", "n", "a", "c", "d", "e">>
\* A content type is the sequence of its parts, "image/jpeg" being
\* <<"image", "/", "jpeg">>, so that startswith("image/") is computed.
ImageJpeg == <<"image", "/", "jpeg">>
TextPlain == <<"text", "/", "plain">>
StartsWith(s, prefix) ==
    Len(s) >= Len(prefix) /\ SubSeq(s, 1, Len(prefix)) = prefix

\* f["mimeType"].startswith("image/")
IsImage(f) == StartsWith(f.mimeType, <<"image", "/">>)

File(i) ==
    [id |-> i,
     name |-> UpstreamNames[i],
     mimeType |-> IF UpstreamNames[i] = "n" THEN TextPlain ELSE ImageJpeg]
Folder(n) == [i \in 1..n |-> File(i)]
Folders == {Folder(n) : n \in 0..MaxFiles}
ImageNames == {File(i).name : i \in {j \in 1..MaxFiles : IsImage(File(j))}}

\* A response of files().list(): the files of the page and the nextPageToken,
\* which is the number of the response it leads to, or NoToken when absent.
NoToken == 0
Page(files, token) == [files |-> files, nextPageToken |-> token]

\* The responses the upstream serves for a folder, k being the number of the
\* first one: size entries each, every page but the last carrying the token of
\* the next one.
RECURSIVE PaginateBy(_, _, _)
PaginateBy(files, size, k) ==
    IF Len(files) <= size THEN <<Page(files, NoToken)>>
    ELSE <<Page(SubSeq(files, 1, size), k + 1)>>
             \o PaginateBy(SubSeq(files, size + 1, Len(files)), size, k + 1)

Paginate(files) == PaginateBy(files, PageSize, 1)

SelectImages(files) == SelectSeq(files, IsImage)

\* list.sort(key=name): a stable insertion sort by name.
RECURSIVE InsertByName(_, _)
InsertByName(sorted, f) ==
    IF sorted = << >> THEN <<f>>
    ELSE IF NameRank(sorted[Len(sorted)].name) <= NameRank(f.name)
         THEN Append(sorted, f)
         ELSE Append(InsertByName(SubSeq(sorted, 1, Len(sorted) - 1), f), sorted[Len(sorted)])

\* Variant that leaves the images in the order of arrival.
SortByNameNone(files) == files

RECURSIVE SortByName(_)
SortByName(files) ==
    IF files = << >> THEN << >>
    ELSE InsertByName(SortByName(SubSeq(files, 1, Len(files) - 1)), files[Len(files)])

\* Variant that reads the first response only, whatever its token.
ListFromFirstPage(pages, k, acc, failAt) ==
    IF k = failAt THEN [ok |-> FALSE, images |-> << >>]
    ELSE [ok |-> TRUE, images |-> SortByName(acc \o SelectImages(pages[k].files))]

\* Variant in which a failing request is caught and the images collected so
\* far are returned as the listing.
RECURSIVE ListFromPartial(_, _, _, _)
ListFromPartial(pages, k, acc, failAt) ==
    IF k = failAt THEN [ok |-> TRUE, images |-> SortByName(acc)]
    ELSE LET got == acc \o SelectImages(pages[k].files)
         IN  IF pages[k].nextPageToken = NoToken
             THEN [ok |-> TRUE, images |-> SortByName(got)]
             ELSE ListFromPartial(pages, pages[k].nextPageToken, got, failAt)

\* The while loop of list_drive_images (lines 864-894) from request number k
\* on, acc being the local list `images`.  Request number failAt raises (0:
\* none does) and the local list is lost with the exception, which nothing in
\* the function catches.  The loop ends at the first response without a
\* token; the list is sorted then.
RECURSIVE ListFrom(_, _, _, _)
ListFrom(pages, k, acc, failAt) ==
    IF k = failAt THEN [ok |-> FALSE, images |-> << >>]
    ELSE LET got == acc \o SelectImages(pages[k].files)
         IN  IF pages[k].nextPageToken = NoToken
             THEN [ok |-> TRUE, images |-> SortByName(got)]
             ELSE ListFrom(pages, pages[k].nextPageToken, got, failAt)

ListRequests(pages, failAt) == ListFrom(pages, 1, << >>, failAt)

\* list_drive_images when every request succeeds.
list_drive_images(pages) == ListRequests(pages, 0).images

\* ------------------------------------------------------- annotation store
Sides == {"front", "back", "left", "right", "none"}

Row(n, d, s) == [image_name |-> n, description |-> d, side |-> s]

\* The rows a table may hold for a name before the session starts.  Their side
\* is one of the options of the radio, so that the lookup of line 1126 succeeds.
StoredDescriptions == {Null, EmptyStr, NoneStr, Dent}
InitialRows(n) == {Row(n, d, "left") : d \in StoredDescriptions}
RowChoices(n) == {{}} \cup {{r} : r \in InitialRows(n)}
\* Tables with image_name as unique key: at most one row per name.
InitialStores ==
    {SetToBag(UNION {t[n] : n \in ImageNames}) :
        t \in {f \in [ImageNames -> UNION {RowChoices(n) : n \in ImageNames}] :
                 \A n \in ImageNames : f[n] \in RowChoices(n)}}

\* res.data of a select: the rows of the table.
RowsOf(db, n) == {r \in BagToSet(db) : r.image_name = n}
KeysOf(db) == {r.image_name : r \in BagToSet(db)}

\* load_labels: {image_name: {description, side}} over every row.
load_labels(db) ==
    [n \in KeysOf(db) |->
        LET r == CHOOSE x \in BagToSet(db) : x.image_name = n
        IN  [description |-> r.description, side |-> r.side]]

\* Variant without the comparison with "None".
GetLabeledNoSentinel(db) ==
    {r.image_name : r \in {x \in BagToSet(db) : Truthy(x.description)}}

\* get_labeled_image_names: the names whose description is truthy and not "None".
get_labeled_image_names(db) ==
    {r.image_name :
        r \in {x \in BagToSet(db) : Truthy(x.description) /\ x.description # NoneStr}}

\* Variant that inserts without replacing.
UpsertInsert(db, row) == db (+) SetToBag({row})

\* Variant that keeps the row a name already has (on conflict do nothing).
UpsertKeepOld(db, row) ==
    IF row.image_name \in KeysOf(db) THEN db ELSE db (+) SetToBag({row})

\* supabase upsert on the key image_name: insert, or replace the row of that name.
Upsert(db, row) ==
    LET kept == {r \in BagToSet(db) : r.image_name # row.image_name}
    IN  [r \in kept |-> db[r]] (+) SetToBag({row})

\* st.session_state.labels[name] = {...}
PutLabel(labels, n, d, s) ==
    [k \in DOMAIN labels \cup {n} |->
        IF k = n THEN [description |-> d, side |-> s] ELSE labels[k]]

\* ------------------------------------------------------------------ state
VARIABLES
    config,             \* the required settings the environment defines
    has_session,        \* the setdefault lines have run in this session
    drive_pages,        \* what the Drive listing serves, page by page
    store,              \* the rows of the table image_labels
    all_images,         \* st.session_state.all_images
    images,             \* st.session_state.images
    index,              \* st.session_state.index
    labels,             \* st.session_state.labels
    current_name,       \* st.session_state.current_name
    current_side,       \* st.session_state.current_side
    last_filter_mode,   \* st.session_state.last_filter_mode
    filter_mode,        \* the value of the radio "Show Images"
    event               \* the last interaction and what the operator saw: op,
                        \* result (where its run ended), page (where the last
                        \* run ended), input (the form values), saved (the row
                        \* save_label wrote), rewrite (that row was in the
                        \* table already)

vars == <<config, drive_pages, store, has_session, all_images, images, index,
          labels, current_name, current_side, last_filter_mode, filter_mode, event>>

\* The settings the script requires from the environment.
Settings == {"GOOGLE_SERVICE_ACCOUNT_JSON", "SUPABASE_URL", "SUPABASE_KEY"}

FilterModes == {"All Images", "Only Unlabeled"}

\* The external calls of one script run; at most the first failing one matters,
\* since nothing in the script catches an exception.
\* "list" is the first request of the listing, "page" a later one.
Failures == {"none", "list", "page", "load", "names", "download", "upsert", "tab2"}
\* The calls a run makes before the form is reached, and the calls of a run
\* that starts with the inventory already listed.
LoadFailures == Failures \ {"upsert"}
\* In a run that handles a press or follows st.rerun() the read of tab 2 is
\* taken to succeed: its failure is explored in the runs without a press.
FormFailures == {"none", "names", "download", "upsert"}
RerunFailures == {"none", "names", "download"}
\* The calls of the initial load are made only while the inventory is empty.
InitFailures == {"list", "page", "load"}

NoRow == [image_name |-> "", description |-> Null, side |-> "none"]
NoInput == [label |-> Null, side |-> "none"]

\* The session state as one record, as the script run threads it.
Session ==
    [has_session |-> has_session, all_images |-> all_images, images |-> images, index |-> index,
     labels |-> labels, current_name |-> current_name,
     current_side |-> current_side, last_filter_mode |-> last_filter_mode]

\* A script run in progress: session state, table, where the run ended ("" while
\* it is still running), whether st.warning was shown, the row save_label
\* wrote, the external calls made so far.
Ctx(ss, db) ==
    [ss |-> ss, db |-> db, end |-> "", warned |-> FALSE, saved |-> NoRow, calls |-> {}]

\* The run makes a call to Drive or to Supabase.
Call(c, name) == [c EXCEPT !.calls = @ \cup {name}]


\* ------------------------------------------------------ the script, by block
\* Variant of the settings check that tests the Supabase URL and not the key.
ConfigCheckNoKey(c) ==
    IF "GOOGLE_SERVICE_ACCOUNT_JSON" \notin config
    THEN [c EXCEPT !.end = "config_error"]
    ELSE IF "SUPABASE_URL" \notin config
    THEN [c EXCEPT !.end = "config_error"]
    ELSE c

\* ENVIRONMENT and SUPABASE CONFIGURATION (lines 796-799, 815-820): st.error
\* and st.stop() when a setting is missing.
ConfigCheck(c) ==
    IF "GOOGLE_SERVICE_ACCOUNT_JSON" \notin config
    THEN [c EXCEPT !.end = "config_error"]
    ELSE IF "SUPABASE_URL" \notin config \/ "SUPABASE_KEY" \notin config
    THEN [c EXCEPT !.end = "config_error"]
    ELSE c

\* SESSION STATE INITIALIZATION (lines 828-835): the setdefault calls give every
\* key its default on the first run and leave it alone afterwards.  The
\* session variables hold the defaults from the start; has_session records
\* that the keys exist.
SessionDefaults(c) ==
    IF c.end # "" THEN c
    ELSE [c EXCEPT !.ss.has_session = TRUE]

\* Auto-resume (lines 1011-1021): the first image whose name is not a key of
\* labels with a description other than "None"; index is left alone when there
\* is none.
ResumeLabeled(lbls) == {n \in DOMAIN lbls : lbls[n].description # NoneStr}

ResumeIndex(imgs, lbls, idx) ==
    LET open == {i \in 1..Len(imgs) : imgs[i].name \notin ResumeLabeled(lbls)}
    IN  IF open = {} THEN idx
        ELSE (CHOOSE i \in open : \A j \in open : i <= j) - 1

\* The request of the listing that raises: the first one for "list", the last
\* one for "page" when the listing takes more than one request.
FailAt(pages, fail) ==
    IF fail = "list" THEN 1
    ELSE IF fail = "page" /\ Len(pages) >= 2 THEN Len(pages)
    ELSE 0

\* INITIAL DATA LOADING (lines 1006-1021).
InitialLoad(c, pages, fail) ==
    IF c.end # "" \/ c.ss.all_images # << >> THEN c
    ELSE LET res == ListRequests(pages, FailAt(pages, fail))
             listed == res.images
             l == Call(c, "list")
         IN  IF ~res.ok
             THEN [l EXCEPT !.end = IF fail = "list" THEN "list_error" ELSE "page_error"]
             ELSE IF fail = "load"
             THEN [Call(l, "load") EXCEPT !.ss.all_images = listed, !.end = "load_error"]
             ELSE LET loaded == load_labels(c.db)
                  IN  [Call(l, "load") EXCEPT
                          !.ss.all_images = listed,
                          !.ss.labels = loaded,
                          !.ss.index = ResumeIndex(listed, loaded, c.ss.index)]

\* The list comprehension of lines 1047-1051.
Unlabeled(imgs, labeled_names) ==
    SelectSeq(imgs, LAMBDA img : img.name \notin labeled_names)

\* Variant in which "All Images" keeps the list of the previous mode.
FilterUpdateKeep(c, mode, fail) ==
    IF c.end # "" THEN c
    ELSE IF fail = "names" THEN [Call(c, "names") EXCEPT !.end = "names_error"]
    ELSE LET labeled_names == get_labeled_image_names(c.db)
         IN  IF mode # c.ss.last_filter_mode
             THEN IF mode = "Only Unlabeled"
                  THEN [c EXCEPT
                           !.ss.images = Unlabeled(c.ss.all_images, labeled_names),
                           !.ss.index = 0,
                           !.ss.last_filter_mode = mode]
                  ELSE [c EXCEPT !.ss.last_filter_mode = mode]
             ELSE c

\* Variant that recomputes the unlabeled list on every run in "Only Unlabeled".
FilterUpdateLive(c, mode, fail) ==
    IF c.end # "" THEN c
    ELSE IF fail = "names" THEN [Call(c, "names") EXCEPT !.end = "names_error"]
    ELSE LET labeled_names == get_labeled_image_names(c.db)
         IN  IF mode = "Only Unlabeled"
             THEN [Call(c, "names") EXCEPT
                      !.ss.images = Unlabeled(c.ss.all_images, labeled_names),
                      !.ss.index = IF mode # c.ss.last_filter_mode THEN 0 ELSE @,
                      !.ss.last_filter_mode = mode]
             ELSE [Call(c, "names") EXCEPT
                      !.ss.images = c.ss.all_images,
                      !.ss.last_filter_mode = mode]

\* Filter controls (lines 1036-1060).
FilterUpdate(c, mode, fail) ==
    IF c.end # "" THEN c
    ELSE IF fail = "names" THEN [Call(c, "names") EXCEPT !.end = "names_error"]
    ELSE LET labeled_names == get_labeled_image_names(c.db)
             s1 == IF mode # c.ss.last_filter_mode
                   THEN IF mode = "Only Unlabeled"
                        THEN [c.ss EXCEPT
                                 !.images = Unlabeled(c.ss.all_images, labeled_names),
                                 !.index = 0,
                                 !.last_filter_mode = mode]
                        ELSE [c.ss EXCEPT
                                 !.images = c.ss.all_images,
                                 !.last_filter_mode = mode]
                   ELSE c.ss
             s2 == IF mode = "All Images"
                   THEN [s1 EXCEPT !.images = s1.all_images]
                   ELSE s1
         IN  [Call(c, "names") EXCEPT !.ss = s2]

\* Variant that shows the form for an empty list.
EmptyStopNone(c) == c

\* "Check if all images are labeled" (lines 1063-1065): st.stop().
EmptyStop(c) ==
    IF c.end # "" THEN c
    ELSE IF c.ss.images = << >> THEN [c EXCEPT !.end = "all_labeled"]
    ELSE c

\* "Ensure index is within bounds" (lines 1068-1069).
BoundsCheck(c) ==
    IF c.end # "" THEN c
    ELSE IF c.ss.index >= Len(c.ss.images) THEN [c EXCEPT !.ss.index = 0]
    ELSE c

\* Variant that keeps the image it has loaded before.
LoadCurrentImageOnce(c, fail) ==
    IF c.end # "" \/ c.ss.images = << >> \/ c.ss.current_name # "" THEN c
    ELSE IF fail = "download" THEN [Call(c, "download") EXCEPT !.end = "download_error"]
    ELSE LET img == c.ss.images[c.ss.index + 1]
         IN  [Call(c, "download") EXCEPT !.ss.current_name = img.name,
                                         !.ss.current_side =
                                             IF img.name \in DOMAIN c.ss.labels
                                             THEN c.ss.labels[img.name].side
                                             ELSE "none"]

\* Variant that gives the image an entry in the cache when it has none.
LoadCurrentImageCaching(c, fail) ==
    IF c.end # "" \/ c.ss.images = << >> THEN c
    ELSE IF fail = "download" THEN [Call(c, "download") EXCEPT !.end = "download_error"]
    ELSE LET img == c.ss.images[c.ss.index + 1]
             cached == IF img.name \in DOMAIN c.ss.labels THEN c.ss.labels
                       ELSE PutLabel(c.ss.labels, img.name, EmptyStr, "none")
         IN  [Call(c, "download") EXCEPT !.ss.current_name = img.name,
                                         !.ss.current_side = cached[img.name].side,
                                         !.ss.labels = cached]

\* load_current_image (lines 984-1000), called at line 1072.
load_current_image(c, fail) ==
    IF c.end # "" \/ c.ss.images = << >> THEN c
    ELSE IF fail = "download" THEN [Call(c, "download") EXCEPT !.end = "download_error"]
    ELSE LET img == c.ss.images[c.ss.index + 1]
         IN  [Call(c, "download") EXCEPT !.ss.current_name = img.name,
                       !.ss.current_side =
                           IF img.name \in DOMAIN c.ss.labels
                           THEN c.ss.labels[img.name].side
                           ELSE "none"]

\* Variant that writes the cache entry before the upsert.
SaveLabelCacheFirst(c, name, desc, side, fail) ==
    LET cached == [Call(c, "upsert") EXCEPT
                      !.ss.labels = PutLabel(c.ss.labels, name, desc, side)]
    IN  IF fail = "upsert" THEN [cached EXCEPT !.end = "upsert_error"]
        ELSE [cached EXCEPT !.db = Upsert(c.db, Row(name, desc, side)),
                            !.saved = Row(name, desc, side)]

\* save_label (lines 958-978): the upsert, then the cache entry.
save_label(c, name, desc, side, fail) ==
    IF fail = "upsert" THEN [Call(c, "upsert") EXCEPT !.end = "upsert_error"]
    ELSE [Call(c, "upsert") EXCEPT !.db = Upsert(c.db, Row(name, desc, side)),
                   !.ss.labels = PutLabel(c.ss.labels, name, desc, side),
                   !.saved = Row(name, desc, side)]

\* Variants of the advance with the clamp left out, and with a wrap to 0.
AdvanceNoClamp(idx, n) == idx + 1
AdvanceWrap(idx, n) == IF idx + 1 >= n THEN 0 ELSE idx + 1

\* The advance of lines 1148-1150.
Advance(idx, n) == IF idx + 1 >= n THEN n - 1 ELSE idx + 1

\* Variant that tests the description without stripping it.
SubmitHandlerNoStrip(c, submitted, label, side, fail) ==
    IF c.end # "" \/ ~submitted THEN c
    ELSE IF label = EmptyStr THEN [c EXCEPT !.warned = TRUE]
    ELSE LET s == save_label(c, c.ss.current_name, Strip(label), side, fail)
         IN  IF s.end # "" THEN s
             ELSE [s EXCEPT !.ss.index = Advance(s.ss.index, Len(s.ss.images)),
                            !.end = "rerun"]

\* Variant that advances the index before the label is saved.
SubmitHandlerAdvanceFirst(c, submitted, label, side, fail) ==
    IF c.end # "" \/ ~submitted THEN c
    ELSE IF Strip(label) = EmptyStr THEN [c EXCEPT !.warned = TRUE]
    ELSE LET a == [c EXCEPT !.ss.index = Advance(c.ss.index, Len(c.ss.images))]
             s == save_label(a, c.ss.current_name, Strip(label), side, fail)
         IN  IF s.end # "" THEN s ELSE [s EXCEPT !.end = "rerun"]

\* The submit handler of damage_form (lines 1138-1152).
SubmitHandler(c, submitted, label, side, fail) ==
    IF c.end # "" \/ ~submitted THEN c
    ELSE IF Strip(label) = EmptyStr THEN [c EXCEPT !.warned = TRUE]
    ELSE LET s == save_label(c, c.ss.current_name, Strip(label), side, fail)
         IN  IF s.end # "" THEN s
             ELSE [s EXCEPT !.ss.index = Advance(s.ss.index, Len(s.ss.images)),
                            !.end = "rerun"]

\* TAB 2 (lines 1158-1193): the rows are read again; the progress metric divides
\* by len(all_images) whenever there is at least one row.
DataPreview(c, fail) ==
    IF c.end # "" THEN c
    ELSE IF fail = "tab2" THEN [Call(c, "tab2") EXCEPT !.end = "tab2_error"]
    ELSE IF BagToSet(c.db) # {} /\ Len(c.ss.all_images) = 0
         THEN [Call(c, "tab2") EXCEPT !.end = "zero_division"]
    ELSE [Call(c, "tab2") EXCEPT !.end = "done"]

\* The script down to the display of the current image (lines 796-1114).
\* A block applied to the run so far, the run so far being evaluated once.
Step(c, Block(_)) == CHOOSE r \in {Block(x) : x \in {c}} : TRUE

Top(ss, db, pages, mode, fail) ==
    Step(Step(Step(Step(Step(Step(Step(Ctx(ss, db),
        ConfigCheck),
        SessionDefaults),
        LAMBDA c : InitialLoad(c, pages, fail)),
        LAMBDA c : FilterUpdate(c, mode, fail)),
        EmptyStop),
        BoundsCheck),
        LAMBDA c : load_current_image(c, fail))

\* One execution of the script, top to bottom.
ScriptRun(ss, db, pages, mode, submitted, label, side, fail) ==
    Step(Step(Top(ss, db, pages, mode, fail),
        LAMBDA c : SubmitHandler(c, submitted, label, side, fail)),
        LAMBDA c : DataPreview(c, fail))

\* An interaction: the run it triggers and, after st.rerun(), the run that follows.
Interaction(ss, db, pages, mode, submitted, label, side, fail, fail2) ==
    Step(ScriptRun(ss, db, pages, mode, submitted, label, side, fail),
         LAMBDA first :
            IF first.end = "rerun"
            THEN [first |-> first,
                  last |-> ScriptRun(first.ss, first.db, pages, mode, FALSE, EmptyStr, "none", fail2)]
            ELSE [first |-> first, last |-> first])

\* ------------------------------------------------------------------ actions
\* What the page shows after a run that ended in `end`.
RadioShown(end) == end \notin {"", "config_error", "list_error", "page_error", "load_error"}
FormShown(end) == end \in {"upsert_error", "tab2_error", "zero_division", "done"}

\* The descriptions and sides the operator enters.
InputLabels == {EmptyStr, <<" ", "\n">>, <<" ", "d", " ">>, NoneStr}
InputSides == {"front"}

Apply(op, r, input) ==
    /\ store' = r.last.db
    /\ has_session' = r.last.ss.has_session
    /\ all_images' = r.last.ss.all_images
    /\ images' = r.last.ss.images
    /\ index' = r.last.ss.index
    /\ labels' = r.last.ss.labels
    /\ current_name' = r.last.ss.current_name
    /\ current_side' = r.last.ss.current_side
    /\ last_filter_mode' = r.last.ss.last_filter_mode
    /\ event' = [op |-> op,
                 result |-> IF r.first.warned THEN "warning" ELSE r.first.end,
                 page |-> r.last.end,
                 input |-> input,
                 saved |-> r.first.saved,
                 rewrite |-> r.first.saved # NoRow /\ BagIn(r.first.saved, store),
                 calls |-> r.first.calls \cup r.last.calls]
    /\ UNCHANGED <<config, drive_pages>>

\* The page is opened, or re-executed without any widget change.
Rerun(fail) ==
    /\ fail \in InitFailures => all_images = << >>
    /\ filter_mode' = filter_mode
    /\ \E r \in {Interaction(Session, store, drive_pages, filter_mode, FALSE, EmptyStr, "none", fail, "none")} :
          Apply("rerun", r, NoInput)

\* The operator picks the other option of the radio "Show Images".
SetFilter(mode, fail) ==
    /\ RadioShown(event.page)
    /\ mode # filter_mode
    /\ fail \in InitFailures => all_images = << >>
    /\ filter_mode' = mode
    /\ \E r \in {Interaction(Session, store, drive_pages, mode, FALSE, EmptyStr, "none", fail, "none")} :
          Apply("filter", r, NoInput)

\* The operator presses "Save & Next" with a description and a side.
Submit(label, side, fail, fail2) ==
    /\ FormShown(event.page)
    /\ fail # "none" => fail2 = "none"
    /\ Strip(label) = EmptyStr => fail2 = "none"
    /\ filter_mode' = filter_mode
    /\ \E r \in {Interaction(Session, store, drive_pages, filter_mode, TRUE, label, side, fail, fail2)} :
          Apply("save", r, [label |-> label, side |-> side])

Init ==
    /\ config \in SUBSET Settings
    /\ has_session = FALSE
    /\ drive_pages \in {Paginate(f) : f \in Folders}
    /\ store \in InitialStores
    /\ all_images = << >>
    /\ images = << >>
    /\ index = 0
    /\ labels = << >>
    /\ current_name = ""
    /\ current_side = "none"
    /\ last_filter_mode = "All Images"
    /\ filter_mode = "All Images"
    /\ event = [op |-> "none", result |-> "", page |-> "", input |-> NoInput, saved |-> NoRow,
               rewrite |-> FALSE, calls |-> {}]

\* ------------------------------------------- the Prev and Next buttons
\* The live script moves the index with "Save & Next" only.  Its earlier
\* variant, kept as a comment in the same file, has a Prev and a Next button
\* beside the save button (lines 693-722); NavSpec is the live script with
\* these two buttons put back below the current image.
Buttons == {"prev", "next"}

\* Variant in which both buttons increment.
NavStepForward(idx, button) == idx + 1

\* index -= 1 (line 697), index += 1 (line 721).
NavStep(idx, button) == IF button = "prev" THEN idx - 1 ELSE idx + 1

\* disabled=... of st.button (lines 696, 716-720).
ButtonDisabled(button, idx, n) ==
    IF button = "prev" THEN idx = 0 ELSE idx = n - 1

\* The body of `if st.button(...)`: the step, then st.rerun().
NavHandler(c, button) ==
    IF c.end # "" THEN c
    ELSE [c EXCEPT !.ss.index = NavStep(c.ss.index, button), !.end = "rerun"]

\* The run a click on a button triggers, and the run after st.rerun().
NavInteraction(ss, db, pages, mode, button, fail, fail2) ==
    Step(Step(Top(ss, db, pages, mode, fail), LAMBDA c : NavHandler(c, button)),
         LAMBDA first :
            IF first.end = "rerun"
            THEN [first |-> first,
                  last |-> ScriptRun(first.ss, first.db, pages, mode, FALSE, EmptyStr, "none", fail2)]
            ELSE [first |-> first, last |-> first])

\* The operator presses Prev or Next; a disabled button cannot be pressed.
Navigate(button, fail, fail2) ==
    /\ FormShown(event.page)
    /\ ~ButtonDisabled(button, index, Len(images))
    /\ fail # "none" => fail2 = "none"
    /\ filter_mode' = filter_mode
    /\ \E r \in {NavInteraction(Session, store, drive_pages, filter_mode, button, fail, fail2)} :
          Apply(button, r, NoInput)

NavNext ==
    \E button \in Buttons, fail \in RerunFailures, fail2 \in RerunFailures :
        Navigate(button, fail, fail2)

\* ------------------------------------------------- jumpToNextUnlabeled
\* The script has no jump control, in any of its variants; the operation is
\* taken from its description in the specification: scan the working set
\* strictly after the cursor for the first item whose name is missing from
\* the cache or has the sentinel description "None"; if found, set the cursor
\* there; else leave it and report "exhausted".
JumpCandidate(img, cache) ==
    img.name \notin DOMAIN cache \/ cache[img.name].description = NoneStr

\* The first candidate at index i or later, or -1.
RECURSIVE ScanFrom(_, _, _)
ScanFrom(ws, i, cache) ==
    IF i >= Len(ws) THEN -1
    ELSE IF JumpCandidate(ws[i + 1], cache) THEN i
    ELSE ScanFrom(ws, i + 1, cache)

\* Variant whose scan starts at the cursor itself.
JumpFromCursor(ws, cursor, cache) ==
    LET hit == ScanFrom(ws, cursor, cache)
    IN  IF hit >= 0 THEN [cursor |-> hit, exhausted |-> FALSE]
        ELSE [cursor |-> cursor, exhausted |-> TRUE]

jumpToNextUnlabeled(ws, cursor, cache) ==
    LET hit == ScanFrom(ws, cursor + 1, cache)
    IN  IF hit >= 0 THEN [cursor |-> hit, exhausted |-> FALSE]
        ELSE [cursor |-> cursor, exhausted |-> TRUE]

\* Sessions in which the form is shown: an inventory of 1 to JumpLen images,
\* each unannotated, described, or saved with the sentinel, and any cursor.
JumpLen == 3
JumpImages(n) == [i \in 1..n |-> [id |-> i, name |-> Alphabet[i], mimeType |-> ImageJpeg]]
JumpNames(n) == {Alphabet[i] : i \in 1..n}
JumpStores(n) ==
    {SetToBag({Row(k, d[k], "left") : k \in DOMAIN d}) :
        d \in UNION {[s -> {Dent, NoneStr}] : s \in SUBSET JumpNames(n)}}

JumpInit ==
    /\ config = Settings
    /\ has_session = TRUE
    /\ \E n \in 1..JumpLen :
          /\ drive_pages = Paginate(JumpImages(n))
          /\ store \in JumpStores(n)
          /\ all_images = JumpImages(n)
    /\ images = all_images
    /\ index \in 0..(Len(images) - 1)
    /\ labels = load_labels(store)
    /\ current_name = images[index + 1].name
    /\ current_side = IF current_name \in DOMAIN labels THEN labels[current_name].side ELSE "none"
    /\ last_filter_mode = "All Images"
    /\ filter_mode = "All Images"
    /\ event = [op |-> "none", result |-> "", page |-> "done", input |-> NoInput, saved |-> NoRow,
               rewrite |-> FALSE, calls |-> {}]

\* The operator asks for the next unlabeled item.
Jump ==
    LET r == jumpToNextUnlabeled(images, index, labels)
    IN  /\ index' = r.cursor
        /\ event' = [event EXCEPT !.op = "jump",
                                  !.result = IF r.exhausted THEN "exhausted" ELSE "moved"]
        /\ UNCHANGED <<config, drive_pages, store, has_session, all_images, images, labels,
                       current_name, current_side, last_filter_mode, filter_mode>>

JumpSpec == JumpInit /\ [][Jump]_vars

\* ----------------------------------------------- the listing on its own
\* Folders of up to ListLen files of any name and content type, served in pages
\* of any size up to PageSize; the table is empty and every setting defined.
ListLen == 2
ListNames == {"a", "b", "c"}
ListMimes == {ImageJpeg, TextPlain, <<"image">>, <<"application", "/", "image", "/", "x">>}
Listings ==
    UNION {{[i \in 1..n |-> [id |-> i, name |-> f[i][1], mimeType |-> f[i][2]]] :
                f \in [1..n -> ListNames \X ListMimes]} : n \in 0..ListLen}
Upstreams == {PaginateBy(files, size, 1) : files \in Listings, size \in 1..PageSize}
ListFailures == {"none", "list", "page"}

ListInit ==
    /\ config = Settings
    /\ has_session = FALSE
    /\ drive_pages \in Upstreams
    /\ store = EmptyBag
    /\ all_images = << >>
    /\ images = << >>
    /\ index = 0
    /\ labels = << >>
    /\ current_name = ""
    /\ current_side = "none"
    /\ last_filter_mode = "All Images"
    /\ filter_mode = "All Images"
    /\ event = [op |-> "none", result |-> "", page |-> "", input |-> NoInput, saved |-> NoRow,
               rewrite |-> FALSE, calls |-> {}]

ListNext == \E fail \in ListFailures : Rerun(fail)

ListSpec == ListInit /\ [][ListNext]_vars

Next ==
    \/ \E fail \in LoadFailures : Rerun(fail)
    \/ \E mode \in FilterModes, fail \in LoadFailures : SetFilter(mode, fail)
    \/ \E label \in InputLabels, side \in InputSides, fail \in FormFailures,
          fail2 \in RerunFailures :
            Submit(label, side, fail, fail2)

Spec == Init /\ [][Next]_vars

\* The session with the two buttons: page loads and filter toggles with every
\* failure, saves of a description that succeed, and the presses of NavNext.
NavSessionNext ==
    \/ \E fail \in LoadFailures : Rerun(fail)
    \/ \E mode \in FilterModes, fail \in LoadFailures : SetFilter(mode, fail)
    \/ \E side \in InputSides : Submit(<<" ", "d", " ">>, side, "none", "none")
    \/ NavNext

NavSpec == Init /\ [][NavSessionNext]_vars


\* ------------------------------------------- a session of saves only
\* Every setting is defined, no call fails; the operator opens the page once
\* and from then on presses "Save & Next" with a description the form
\* accepts, again and again.
AcceptedLabels == {l \in InputLabels : Strip(l) # EmptyStr}

LiveInit == Init /\ config = Settings

OpenPage == event.op = "none" /\ Rerun("none")

SaveOk ==
    \E label \in AcceptedLabels, side \in InputSides : Submit(label, side, "none", "none")

LiveNext == OpenPage \/ SaveOk

LiveSpec == LiveInit /\ [][LiveNext]_vars /\ WF_vars(OpenPage) /\ WF_vars(SaveOk)

\* ----------------------------------------------------------- vocabulary
\* The terms of the contract, in terms of the session state:
\*   workingSet = images, cursor = index, annotationCache = labels,
\*   filterMode = last_filter_mode, full inventory = all_images.
Min(a, b) == IF a <= b THEN a ELSE b

\* The run reached the filter update, the form, the submit handler.
FilterRan(e) ==
    e.result \notin {"", "config_error", "list_error", "page_error", "load_error", "names_error"}
HandlerRan(e) == e.op = "save" /\ e.result \in {"warning", "upsert_error", "rerun"}
Saved(e) == e.op = "save" /\ e.result = "rerun"

\* A description with no text in it: empty, or only whitespace.
Blank(l) == \A i \in 1..Len(l) : l[i] \in Whitespace

\* ------------------------------------------------------------------ claims
\* C1: after every interaction (page load, filter toggle, save accepted,
\* rejected or failed), whenever the working set is non-empty the cursor
\* satisfies 0 <= cursor < len(workingSet).
C1_CursorInBounds == images # << >> => (0 <= index /\ index < Len(images))

\* The operator switched to "Only Unlabeled" and the view holds one of the two
\* images of the inventory.
C1_Witness ==
    /\ event.op = "filter"
    /\ FilterRan(event)
    /\ last_filter_mode = "Only Unlabeled"
    /\ Len(all_images) = 2
    /\ Len(images) = 1
    /\ index = 0

\* A description that carries no text: NULL, or the empty string.
NoText(d) == d = Null \/ d = EmptyStr

\* An item counts as unlabeled under a snapshot when it has no record, or a
\* record with the sentinel "None" or with no text.
UnlabeledIn(n, lbls) ==
    \/ n \notin DOMAIN lbls
    \/ lbls[n].description = NoneStr
    \/ NoText(lbls[n].description)

FirstUnlabeled(imgs, lbls) ==
    LET open == {i \in 1..Len(imgs) : UnlabeledIn(imgs[i].name, lbls)}
    IN  IF open = {} THEN 0
        ELSE (CHOOSE i \in open : \A j \in open : i <= j) - 1

\* The run of this step listed the inventory and read the snapshot.
Initialized ==
    all_images = << >>
    /\ event'.result \notin {"config_error", "list_error", "page_error", "load_error"}

\* C2: initialize sets the cursor to the smallest index whose item is absent
\* from the snapshot, or has the sentinel description "None", or has an empty
\* description; to 0 when there is none or the inventory is empty.
C2_AutoResume ==
    [][Initialized => index' = FirstUnlabeled(all_images', labels')]_vars

\* C3: a save whose description is empty or only whitespace is rejected with
\* the warning; the table, the cache, the cursor, the working set and the
\* filter mode are what they were.
C3_BlankRejected ==
    [][(HandlerRan(event') /\ Blank(event'.input.label))
        => /\ event'.result = "warning"
           /\ store' = store
           /\ labels' = labels
           /\ index' = index
           /\ images' = images
           /\ last_filter_mode' = last_filter_mode]_vars

\* A whitespace-only description was rejected at the second of two items.
C3_Witness ==
    /\ event.op = "save"
    /\ event.result = "warning"
    /\ event.input.label # EmptyStr
    /\ Len(images) = 2
    /\ index = 1

\* C4: when the upsert fails during a save, the cursor, the working set, the
\* filter mode, the inventory and the cache equal their values before the
\* save; the cursor has not advanced and the cache holds no new record.
C4_StoreFailureRollback ==
    [][(event'.op = "save" /\ event'.result = "upsert_error")
        => /\ index' = index
           /\ images' = images
           /\ last_filter_mode' = last_filter_mode
           /\ all_images' = all_images
           /\ labels' = labels]_vars

\* The upsert failed for the first of two items, which has no cache entry.
C4_Witness ==
    /\ event.op = "save"
    /\ event.result = "upsert_error"
    /\ Len(images) = 2
    /\ index = 0
    /\ images[1].name \notin DOMAIN labels

\* C5: the cache entry of a name is written only after the upsert of that
\* name succeeded: every record of the cache is a row of the table with the
\* same description and side.
C5_CacheAfterStore ==
    \A n \in DOMAIN labels :
        BagIn(Row(n, labels[n].description, labels[n].side), store)

\* A save replaced the row of a name by another one, and the cache holds the
\* new one.
C5_Witness ==
    /\ Saved(event)
    /\ ~event.rewrite
    /\ event.saved.description = NoneStr
    /\ event.saved.image_name \in DOMAIN labels
    /\ labels[event.saved.image_name].description = event.saved.description
    /\ BagIn(event.saved, store)

\* C6: after an accepted save at cursor c of a working set of N items the
\* cursor is min(c + 1, N - 1), also after the run that st.rerun() starts.
C6_AdvanceClamped ==
    [][Saved(event')
        => /\ index' = Min(index + 1, Len(images) - 1)
           /\ images' = images]_vars

\* A save was accepted at the last index of a working set of two items, and
\* the page rendered again.
C6_Witness ==
    /\ Saved(event)
    /\ event.page = "done"
    /\ Len(images) = 2
    /\ index = 1
    /\ event.saved.image_name = images[2].name

\* C7: a filter update to "All Images", and every completed run in which the
\* operator picked "All Images", makes the working set the full inventory, the
\* items and the order being those of the listing.
C7_AllRestoresInventory ==
    [][(\/ (last_filter_mode # "All Images" /\ last_filter_mode' = "All Images")
        \/ (event'.op = "filter" /\ filter_mode' = "All Images" /\ FilterRan(event')))
        => /\ images' = all_images'
           /\ all_images' = list_drive_images(drive_pages)]_vars

\* Back in "All Images" with both images, the first of which is labeled.
C7_Witness ==
    /\ event.op = "filter"
    /\ FilterRan(event)
    /\ last_filter_mode = "All Images"
    /\ Len(images) = 2
    /\ images[1].name \in get_labeled_image_names(store)

\* C8: every filter update that changes the mode resets the cursor to 0.
C8_FilterResetsCursor ==
    [][last_filter_mode' # last_filter_mode => index' = 0]_vars

\* An item is unlabeled in the table when it has no row, or a row with the
\* sentinel "None" or with no text.
UnlabeledInStore(n, db) ==
    \A r \in RowsOf(db, n) : r.description = NoneStr \/ NoText(r.description)

UnlabeledSubsequence(imgs, db) ==
    SelectSeq(imgs, LAMBDA img : UnlabeledInStore(img.name, db))

C10_SaveTwiceSame ==
    [][(Saved(event) /\ Saved(event') /\ event'.saved = event.saved)
        => /\ store' = store
           /\ labels' = labels
           /\ RowsOf(store', event'.saved.image_name) = {event'.saved}
           /\ CopiesIn(event'.saved, store') = 1
           /\ event'.saved.description = Strip(event'.input.label)
           /\ event'.saved.side = event'.input.side
           /\ labels'[event'.saved.image_name] =
                [description |-> event'.saved.description, side |-> event'.saved.side]]_vars

\* A save wrote, at the last index, the row the table already held.
C10_Witness ==
    /\ Saved(event)
    /\ event.rewrite
    /\ index = Len(images) - 1
    /\ event.saved.image_name = images[index + 1].name

\* C11: the table and the cache hold at most one record per name; a successful
\* save leaves exactly one row for its name, carrying the description and the
\* side just entered, in the table and in the cache, and leaves the records
\* of every other name as they were; no other step changes the table, nor,
\* once the inventory is listed, the cache.  So the record of a name is that
\* of the most recent successful save for it.
C11_LastWriterWins ==
    [][/\ \A x \in BagToSet(store') :
            /\ CopiesIn(x, store') = 1
            /\ RowsOf(store', x.image_name) = {x}
       /\ Saved(event') =>
            LET r == event'.saved
                n == r.image_name
            IN  /\ r = Row(current_name, Strip(event'.input.label), event'.input.side)
                /\ RowsOf(store', n) = {r}
                /\ labels'[n] = [description |-> r.description, side |-> r.side]
                /\ KeysOf(store') = KeysOf(store) \cup {n}
                /\ DOMAIN labels' = DOMAIN labels \cup {n}
                /\ \A k \in KeysOf(store) \ {n} : RowsOf(store', k) = RowsOf(store, k)
                /\ \A k \in DOMAIN labels \ {n} : labels'[k] = labels[k]
       /\ ~Saved(event') =>
            /\ store' = store
            /\ all_images # << >> => labels' = labels]_vars

\* Both names were saved in this session; the last save replaced the record of
\* "a" and the record of "b", written by an earlier save, is in place.
C11_Witness ==
    /\ Saved(event)
    /\ event.saved = Row("a", Dent, "front")
    /\ RowsOf(store, "b") = {Row("b", NoneStr, "front")}
    /\ labels["b"] = [description |-> NoneStr, side |-> "front"]
    /\ labels["a"] = [description |-> Dent, side |-> "front"]

\* C12: when the snapshot read (load_labels) fails during the initial load,
\* after the listing succeeded, no session state is mutated: the inventory,
\* the cache and the index keep the values they had before the run, so that
\* a later run performs the initial load and the auto-resume again.
C12_LoadFailureNoMutation ==
    [][event'.result = "load_error"
        => /\ all_images' = all_images
           /\ labels' = labels
           /\ index' = index]_vars

\* C13: a request of the listing that fails after earlier pages were fetched
\* aborts the initial load before the snapshot is read and leaves the
\* inventory empty; at every moment the inventory is either empty or the
\* complete listing of the folder, never a part of it.
C13_NoPartialInventory ==
    [][/\ event'.result = "page_error"
            => /\ all_images = << >>
               /\ all_images' = << >>
               /\ event'.calls = {"list"}
       /\ all_images' \in {<< >>, list_drive_images(drive_pages)}]_vars

\* The second request of a listing failed after the first page, which holds an
\* image, had been fetched.
C13_Witness ==
    /\ event.result = "page_error"
    /\ Len(drive_pages) = 2
    /\ SelectImages(drive_pages[1].files) # << >>
    /\ all_images = << >>

\* The files of every page of the upstream, and the run got past the listing.
UpstreamFiles == UNION {{p.files[i] : i \in 1..Len(p.files)} : p \in {drive_pages[k] : k \in DOMAIN drive_pages}}
Listed == event.result \notin {"", "config_error", "list_error", "page_error"}

\* C14: for every upstream, once the listing has returned, the inventory holds
\* each file of each page whose content type begins with "image" "/" exactly
\* once, and no file of another content type; the pages are followed by their
\* tokens up to the one without a token.
C14_ListingExact ==
    Listed =>
        LET wanted == {f \in UpstreamFiles :
                          /\ Len(f.mimeType) >= 2
                          /\ f.mimeType[1] = "image"
                          /\ f.mimeType[2] = "/"}
        IN  /\ {all_images[i] : i \in 1..Len(all_images)} = wanted
            /\ Len(all_images) = Cardinality(wanted)

\* A listing of two pages: the file of the first has the content type "image"
\* without a subtype and is left out, the image of the second is listed.
C14_Witness ==
    /\ Listed
    /\ Len(drive_pages) = 2
    /\ drive_pages[1].files[1].mimeType = <<"image">>
    /\ drive_pages[2].nextPageToken = NoToken
    /\ all_images = <<drive_pages[2].files[1]>>

\* C15: the inventory is in ascending order of name, whatever the order and the
\* page boundaries of the upstream.
C15_SortedByName ==
    \A i, j \in 1..Len(all_images) :
        i < j => NameRank(all_images[i].name) <= NameRank(all_images[j].name)

\* The upstream served "c" on its first page and "a" on its second; the
\* inventory has them in the order "a", "c".
C15_Witness ==
    /\ Listed
    /\ Len(drive_pages) = 2
    /\ drive_pages[1].files[1].name = "c"
    /\ drive_pages[2].files[1].name = "a"
    /\ Len(all_images) = 2
    /\ all_images[1].name = "a"
    /\ all_images[2].name = "c"

\* C16: when one of the three required settings is missing, every run halts at
\* the settings check with an error: it makes no call to Drive or to Supabase,
\* the setdefault lines do not run, and the session state is as before.
C16_MissingSettingHalts ==
    [][config # Settings
        => /\ event'.result = "config_error"
           /\ event'.page = "config_error"
           /\ event'.calls = {}
           /\ has_session' = FALSE
           /\ UNCHANGED <<store, all_images, images, index, labels, current_name,
                          current_side, last_filter_mode>>]_vars

\* Only SUPABASE_KEY is missing, the folder has files and the table has rows:
\* the run halted before the session state was set up.
C16_Witness ==
    /\ config = Settings \ {"SUPABASE_KEY"}
    /\ event.op = "rerun"
    /\ event.result = "config_error"
    /\ event.calls = {}
    /\ ~has_session
    /\ Len(drive_pages) = 2
    /\ store # EmptyBag
    /\ all_images = << >>

JumpTargets ==
    {i \in (index + 1)..(Len(images) - 1) :
        \/ images[i + 1].name \notin DOMAIN labels
        \/ labels[images[i + 1].name].description = NoneStr}

\* The scenario: img1 is labeled, img2 and img3 are not.
ScenarioSet == JumpImages(3)
ScenarioCache == [n \in {"a"} |-> [description |-> Dent, side |-> "left"]]

\* C18: jumpToNextUnlabeled sets the cursor to the smallest index after the
\* cursor whose item is unannotated or has the sentinel, and with no such
\* index leaves the cursor and reports exhausted; working set and cache are
\* unchanged.  On [img1(labeled), img2, img3] from cursor 0, three calls give
\* 1, then 2, then 2 with exhausted.
C18_JumpToNextUnlabeled ==
    [][/\ event'.op = "jump"
            => /\ UNCHANGED <<images, labels>>
               /\ IF JumpTargets = {}
                  THEN index' = index /\ event'.result = "exhausted"
                  ELSE /\ index' \in JumpTargets
                       /\ \A i \in JumpTargets : index' <= i
                       /\ event'.result = "moved"
       /\ jumpToNextUnlabeled(ScenarioSet, 0, ScenarioCache) = [cursor |-> 1, exhausted |-> FALSE]
       /\ jumpToNextUnlabeled(ScenarioSet, 1, ScenarioCache) = [cursor |-> 2, exhausted |-> FALSE]
       /\ jumpToNextUnlabeled(ScenarioSet, 2, ScenarioCache) = [cursor |-> 2, exhausted |-> TRUE]]_vars

\* The end of the scenario: the cursor is on img3 and the last call reported
\* exhausted.
C18_Witness ==
    /\ event.op = "jump"
    /\ event.result = "exhausted"
    /\ images = ScenarioSet
    /\ DOMAIN labels = {"a"}
    /\ labels["a"].description = Dent
    /\ index = 2

\* C19: a press of "Save & Next", whether the description is rejected, the
\* upsert fails, a later call fails or the save succeeds, leaves the inventory,
\* the working set and the filter mode as they were; so after a successful
\* save the saved item is still in the working set, at the position it had.
C19_SaveKeepsWorkingSet ==
    [][event'.op = "save"
        => /\ all_images' = all_images
           /\ images' = images
           /\ last_filter_mode' = last_filter_mode
           /\ Saved(event') =>
                \E i \in 1..Len(images') :
                    /\ i = index + 1
                    /\ images'[i].name = event'.saved.image_name]_vars

\* In "Only Unlabeled" a description was saved for one of two listed items,
\* which the table now counts as labeled and the working set still holds.
C19_Witness ==
    /\ Saved(event)
    /\ last_filter_mode = "Only Unlabeled"
    /\ Len(images) = 2
    /\ event.saved.description = Dent
    /\ event.saved.image_name \in get_labeled_image_names(store)
    /\ event.saved.image_name \in {images[i].name : i \in 1..Len(images)}

\* C20: in every state the session reaches, load_current_image, whether the
\* download succeeds or raises, returns with index, images, last_filter_mode,
\* all_images and labels, and the table, as it found them (it sets
\* current_name and current_side only).
C20_LoadImageFrame ==
    \A f \in {"none", "download"} :
        LET r == load_current_image(Ctx(Session, store), f)
        IN  /\ r.ss.index = index
            /\ r.ss.images = images
            /\ r.ss.last_filter_mode = last_filter_mode
            /\ r.ss.all_images = all_images
            /\ r.ss.labels = labels
            /\ r.db = store
            /\ (f = "download" /\ images # << >>) => r.end = "download_error"

\* The run downloaded the second image, which has no record, and set its name
\* and the side "none", with the cache as loaded from the table.
C20_Witness ==
    /\ event.op = "rerun"
    /\ event.page = "done"
    /\ "download" \in event.calls
    /\ index = 1
    /\ current_name = images[2].name
    /\ current_name \notin DOMAIN labels
    /\ current_side = "none"
    /\ labels = load_labels(store)
    /\ labels # << >>

\* C21: the item at the cursor is fetched once per cursor change: a press of
\* "Save & Next" that leaves the cursor on the same item of the same working
\* set (a rejected description, a save at the last index), the item being on
\* display already, makes no download.
C21_FetchOncePerCursor ==
    [][(/\ event'.op = "save"
        /\ FormShown(event.page)
        /\ current_name = images[index + 1].name
        /\ images' = images
        /\ index' = index)
        => "download" \notin event'.calls]_vars

\* C22: while the working set is empty no press of "Save & Next" happens and
\* the table is not written; the radio is on the page whenever the run reached
\* the empty-list stop, and a run in "All Images" that reaches the filter
\* update from an empty working set over a non-empty inventory ends with the
\* whole inventory as working set and the index inside it.
C22_EmptyWorkingSet ==
    [][/\ images = << >> => (event'.op # "save" /\ store' = store)
       /\ event'.page = "all_labeled" => (images' = << >> /\ RadioShown(event'.page))
       /\ (/\ images = << >>
           /\ all_images # << >>
           /\ filter_mode' = "All Images"
           /\ FilterRan(event'))
            => /\ images' = all_images
               /\ images' # << >>
               /\ 0 <= index' /\ index' < Len(images')]_vars

\* Both images had a description in the table from the start, so the view
\* "Only Unlabeled" was empty; the operator switched back to "All Images".
C22_Witness ==
    /\ event.op = "filter"
    /\ FilterRan(event)
    /\ last_filter_mode = "All Images"
    /\ Len(all_images) = 2
    /\ images = all_images
    /\ \A i \in 1..2 : RowsOf(store, all_images[i].name) = {Row(all_images[i].name, Dent, "left")}
    /\ index < Len(images)

\* C23: every successful save writes one row: its key is the name of the item
\* at images[index] as it was before the press, its description is the input
\* stripped of leading and trailing whitespace, which is not empty, and its
\* side is the side chosen; no row of another name appears or changes.
C23_SaveWritesCurrentItem ==
    [][Saved(event')
        => LET item == images[index + 1]
               desc == Strip(event'.input.label)
           IN  /\ desc # EmptyStr
               /\ desc[1] \notin Whitespace
               /\ desc[Len(desc)] \notin Whitespace
               /\ event'.saved = Row(item.name, desc, event'.input.side)
               /\ BagIn(event'.saved, store')
               /\ \A r \in BagToSet(store') :
                    r.image_name # item.name => BagIn(r, store)]_vars

\* The description " d " was saved for the item at the last index, the second
\* of two, as "d".
C23_Witness ==
    /\ Saved(event)
    /\ event.input.label = <<" ", "d", " ">>
    /\ Len(images) = 2
    /\ index = 1
    /\ event.saved = Row(images[2].name, Dent, "front")
    /\ RowsOf(store, images[1].name) = {Row(images[1].name, Dent, "left")}

\* C24: auto-resume and the filter "Only Unlabeled" classify alike: when the
\* initial load has read a snapshot under which the filter would list at least
\* one item, the item at the index chosen by auto-resume is the first item of
\* that list.
C24_ResumeAgreesWithFilter ==
    [][Initialized
        => LET unlabeled == Unlabeled(all_images', get_labeled_image_names(store'))
           IN  unlabeled # << >> => all_images'[index' + 1] = unlabeled[1]]_vars

\* C25: an item that was saved successfully counts as labeled: the snapshot a
\* later initial load reads has it among the names auto-resume passes over,
\* and the list computed by the next switch to "Only Unlabeled" does not hold
\* it.
C25_SavedCountsAsLabeled ==
    [][/\ Saved(event')
            => event'.saved.image_name \in ResumeLabeled(load_labels(store'))
       /\ (/\ Saved(event)
           /\ event'.op = "filter"
           /\ FilterRan(event')
           /\ last_filter_mode = "All Images"
           /\ last_filter_mode' = "Only Unlabeled")
            => event.saved.image_name \notin {images'[i].name : i \in 1..Len(images')}]_vars

\* Every item of the inventory has a row whose description has text and is
\* not the sentinel.
AllDescribed ==
    \A i \in 1..Len(all_images) :
        \E r \in RowsOf(store, all_images[i].name) :
            Truthy(r.description) /\ r.description # NoneStr

\* C26: after the initial load of a non-empty inventory in "All Images", an
\* operator who only makes saves that succeed eventually reaches, and stays
\* in, a state where the index is the last one and every item of the
\* inventory has a row with a non-empty, non-sentinel description.
C26_SavesReachAllLabeled ==
    <>[](/\ event.op # "none"
         /\ all_images # << >> => (index = Len(all_images) - 1 /\ AllDescribed))

\* The progress metric of tab 2 was computed by the last run: tab 2 read the
\* table and found at least one row.
ProgressComputed(e) ==
    /\ "tab2" \in e.calls
    /\ e.page \in {"done", "zero_division"}
    /\ store # EmptyBag

\* C27: the progress metric of the data preview, which divides the number of
\* rows by len(all_images), is never computed while the inventory is empty: no
\* run ends in the division by zero, and a run that computed the metric over a
\* table with rows had a non-empty inventory; a run over an empty inventory
\* stops before tab 2, also when the table already holds rows.
C27_ProgressNeverDividesByZero ==
    /\ event.result # "zero_division"
    /\ event.page # "zero_division"
    /\ ProgressComputed(event) => all_images # << >>
    /\ (event.op # "none" /\ all_images = << >>) => "tab2" \notin event.calls

\* A run over an empty inventory, while the table holds a row, has stopped at
\* the empty working set without reaching tab 2.
C27_Witness ==
    /\ event.op = "rerun"
    /\ event.page = "all_labeled"
    /\ all_images = << >>
    /\ store # EmptyBag
    /\ "list" \in event.calls
    /\ "tab2" \notin event.calls

=============================================================================
